---------------------------- MODULE Spec2Model ----------------------------
(***************************************************************************)
(* THEIA host monitor (theia-cli2.js): the platform parsers and the       *)
(* change-tracking poll cycle.                                             *)
(*                                                                         *)
(* Text is a sequence of one-character strings, a record list a sequence   *)
(* of records, a Set a set and a Map a function over its keys.  Time is    *)
(* Date.now() in milliseconds.                                             *)
(***************************************************************************)
EXTENDS Integers, Sequences, FiniteSets, TLC

(***************************************************************************)
(* String primitives of the JavaScript runtime, as the parsers use them.   *)
(***************************************************************************)

\* The characters String.prototype.trim and /\s/ treat as white space
\* (those that occur in the modelled tool outputs).
Whitespace == {" ", "\t", "\r", "\n"}

\* line.trim() is the empty (falsy) string.
IsBlank(s) == \A i \in 1..Len(s) : s[i] \in Whitespace

\* s.trim()
Trim(s) ==
  IF IsBlank(s) THEN <<>>
  ELSE LET first == CHOOSE i \in 1..Len(s) :
                      s[i] \notin Whitespace /\ \A j \in 1..(i-1) : s[j] \in Whitespace
           last  == CHOOSE i \in 1..Len(s) :
                      s[i] \notin Whitespace /\ \A j \in (i+1)..Len(s) : s[j] \in Whitespace
       IN SubSeq(s, first, last)

\* The k-th smallest element of a finite set of integers.
NthOf(S, k) == CHOOSE x \in S : Cardinality({y \in S : y < x}) = k - 1

\* s.split(sep) for a one-character separator: the pieces between the
\* separators, empty pieces included.
SplitChar(s, sep) ==
  LET cuts == {0, Len(s) + 1} \cup {i \in 1..Len(s) : s[i] = sep}
  IN [k \in 1..(Cardinality(cuts) - 1) |->
        SubSeq(s, NthOf(cuts, k) + 1, NthOf(cuts, k + 1) - 1)]

\* s.trim().split(/\s+/): the maximal runs of non-white-space characters;
\* the empty string splits into one empty token.
SplitWs(s) ==
  LET t      == Trim(s)
      starts == {i \in 1..Len(t) : t[i] \notin Whitespace
                                   /\ (i = 1 \/ t[i-1] \in Whitespace)}
      ends   == {i \in 1..Len(t) : t[i] \notin Whitespace
                                   /\ (i = Len(t) \/ t[i+1] \in Whitespace)}
  IN IF t = <<>> THEN << <<>> >>
     ELSE [k \in 1..Cardinality(starts) |->
             SubSeq(t, NthOf(starts, k), NthOf(ends, k))]

\* output.split('\n').filter(line => line.trim())
NonBlank(l) == ~IsBlank(l)
SplitLines(output) == SelectSeq(SplitChar(output, "\n"), NonBlank)

\* parts.slice(from).join(' ') with from a 1-based position
RECURSIVE JoinFrom(_, _)
JoinFrom(parts, from) ==
  IF from > Len(parts) THEN <<>>
  ELSE IF from = Len(parts) THEN parts[from]
  ELSE parts[from] \o <<" ">> \o JoinFrom(parts, from + 1)

\* array.slice(0, n)
Slice0(seq, n) == SubSeq(seq, 1, IF Len(seq) < n THEN Len(seq) ELSE n)

\* array[i] || dflt, i a 0-based index: undefined and '' are falsy
OrDefault(parts, i, dflt) ==
  IF i + 1 <= Len(parts) /\ parts[i + 1] # <<>> THEN parts[i + 1] ELSE dflt

\* str.includes(sub)
Includes(str, sub) ==
  \E i \in 1..(Len(str) - Len(sub) + 1) : SubSeq(str, i, i + Len(sub) - 1) = sub

NA == <<"N", "/", "A">>
Bar == <<"|">>

(***************************************************************************)
(* parseProcesses                                                          *)
(***************************************************************************)

\* The number of records parseProcesses keeps.
ProcessCap == 50

\* field.replace(/^"/, '').replace(/"$/, '')
StripQuotes(f) ==
  LET a == IF Len(f) > 0 /\ f[1] = "\"" THEN Tail(f) ELSE f
  IN IF Len(a) > 0 /\ a[Len(a)] = "\"" THEN SubSeq(a, 1, Len(a) - 1) ELSE a

\* Variant: every comma ends a field, quoted or not.
CsvStepIgnoringQuotes(char, inQuotes, current, fields) ==
  IF char = "\"" THEN [inQuotes |-> ~inQuotes, current |-> current, fields |-> fields]
  ELSE IF char = ","
       THEN [inQuotes |-> inQuotes, current |-> <<>>, fields |-> Append(fields, Trim(current))]
  ELSE [inQuotes |-> inQuotes, current |-> Append(current, char), fields |-> fields]

\* The body of the scanner loop of the Windows branch (lines 186-193): what
\* one character does to inQuotes, current and fields.
CsvStep(char, inQuotes, current, fields) ==
  IF char = "\"" /\ ~inQuotes
  THEN [inQuotes |-> TRUE, current |-> current, fields |-> fields]
  ELSE IF char = "\"" /\ inQuotes
  THEN [inQuotes |-> FALSE, current |-> current, fields |-> fields]
  ELSE IF char = "," /\ ~inQuotes
  THEN [inQuotes |-> inQuotes, current |-> <<>>, fields |-> Append(fields, Trim(current))]
  ELSE [inQuotes |-> inQuotes, current |-> Append(current, char), fields |-> fields]

\* The quoted-CSV scanner of the Windows branch over line + ',' from
\* position i on: the fields pushed.
RECURSIVE CsvScan(_, _, _, _, _)
CsvScan(s, i, inQuotes, current, fields) ==
  IF i > Len(s) THEN fields
  ELSE LET step == CsvStep(s[i], inQuotes, current, fields)
       IN CASE step.inQuotes \in BOOLEAN ->    \* the step is evaluated before the next
               CsvScan(s, i + 1, step.inQuotes, step.current, step.fields)

CsvFields(line) == CsvScan(line \o <<",">>, 1, FALSE, <<>>, <<>>)

\* The records one line of tasklist output contributes (none or one).
WindowsProcessLine(line) ==
  LET fields == CsvFields(line)
  IN IF Len(fields) >= 2
     THEN LET name == StripQuotes(fields[1])
              pid  == StripQuotes(fields[2])
          IN << [name |-> name, pid |-> pid,
                 user |-> OrDefault(fields, 6, NA),
                 cpu  |-> OrDefault(fields, 7, NA),
                 mem  |-> OrDefault(fields, 4, NA),
                 id   |-> name \o Bar \o pid] >>
     ELSE <<>>

\* The records one line of ps aux output contributes (none or one).
UnixProcessLine(line) ==
  LET parts == SplitWs(line)
  IN IF Len(parts) >= 11
     THEN LET command == JoinFrom(parts, 11)
          IN << [name |-> command, pid |-> parts[2],
                 user |-> parts[1], cpu |-> parts[3], mem |-> parts[4],
                 id   |-> command \o Bar \o parts[2]] >>
     ELSE <<>>

\* lines.forEach pushing onto the result, the first line (idx 0) skipped.
RECURSIVE ProcessLinesFrom(_, _, _)
ProcessLinesFrom(lines, idx, os) ==
  IF idx > Len(lines) THEN <<>>
  ELSE (IF os = "windows" THEN WindowsProcessLine(lines[idx])
        ELSE UnixProcessLine(lines[idx]))
       \o ProcessLinesFrom(lines, idx + 1, os)

\* Variant: processes.slice(-50), the last records instead of the first.
KeepLast(processes) ==
  SubSeq(processes, IF Len(processes) > ProcessCap THEN Len(processes) - ProcessCap + 1 ELSE 1,
         Len(processes))

\* processes.slice(0, 50)
KeepFirst(processes) == Slice0(processes, ProcessCap)

parseProcesses(output, os) ==
  KeepFirst(ProcessLinesFrom(SplitLines(output), 2, os))


(***************************************************************************)
(* parseConnections                                                        *)
(***************************************************************************)

sTCP == <<"T", "C", "P">>
sUDP == <<"U", "D", "P">>
sESTABLISHED == <<"E", "S", "T", "A", "B", "L", "I", "S", "H", "E", "D">>
sUnknown == <<"U", "n", "k", "n", "o", "w", "n">>
\* '0.0.0.0:0' and '*:*', the remote endpoints the Windows branch drops
sAnyV4 == <<"0", ".", "0", ".", "0", ".", "0", ":", "0">>
sStarStar == <<"*", ":", "*">>
\* The literal tail of the lsof pattern: (ESTABLISHED)
sParenEstablished == <<"(">> \o sESTABLISHED \o <<")">>

\* A value JavaScript leaves undefined (a field the parser does not set).
Undefined == <<>>

\* c.toUpperCase() for one character
UpperChar(c) ==
  CASE c = "a" -> "A" [] c = "b" -> "B" [] c = "c" -> "C" [] c = "d" -> "D"
    [] c = "e" -> "E" [] c = "f" -> "F" [] c = "g" -> "G" [] c = "h" -> "H"
    [] c = "i" -> "I" [] c = "j" -> "J" [] c = "k" -> "K" [] c = "l" -> "L"
    [] c = "m" -> "M" [] c = "n" -> "N" [] c = "o" -> "O" [] c = "p" -> "P"
    [] c = "q" -> "Q" [] c = "r" -> "R" [] c = "s" -> "S" [] c = "t" -> "T"
    [] c = "u" -> "U" [] c = "v" -> "V" [] c = "w" -> "W" [] c = "x" -> "X"
    [] c = "y" -> "Y" [] c = "z" -> "Z" [] OTHER -> c

\* s.toUpperCase()
ToUpperCase(s) == [i \in 1..Len(s) |-> UpperChar(s[i])]

\* Variant: a line with fewer than four tokens contributes nothing.
WindowsConnectionLineFourTokens(line) ==
  LET parts == SplitWs(line)
  IN IF (parts[1] = sTCP \/ parts[1] = sUDP) /\ Len(parts) >= 4
     THEN LET protocol == parts[1]
              local    == parts[2]
              remote   == parts[3]
              state    == parts[4]
          IN IF remote # sAnyV4 /\ remote # sStarStar
             THEN << [protocol |-> protocol, local |-> local, remote |-> remote,
                      state |-> state, process |-> sUnknown, family |-> Undefined,
                      id |-> protocol \o Bar \o local \o Bar \o remote \o Bar \o state] >>
             ELSE <<>>
     ELSE <<>>

\* The records one line of netstat -ano output contributes.
WindowsConnectionLine(line) ==
  LET parts == SplitWs(line)
  IN IF parts[1] = sTCP \/ parts[1] = sUDP
     THEN LET protocol == parts[1]
              local    == IF Len(parts) >= 2 THEN parts[2] ELSE Undefined
              remote   == IF Len(parts) >= 3 THEN parts[3] ELSE Undefined
              state    == OrDefault(parts, 3, NA)
          IN IF remote # Undefined /\ remote # sAnyV4 /\ remote # sStarStar
             THEN << [protocol |-> protocol, local |-> local, remote |-> remote,
                      state |-> state, process |-> sUnknown, family |-> Undefined,
                      id |-> protocol \o Bar \o local \o Bar \o remote \o Bar \o state] >>
             ELSE <<>>
     ELSE <<>>

\* namePart.match(/([^\->]+)->([^\(]+)\s*\(ESTABLISHED\)/): the positions j
\* of an arrow "->" that a match can use.  Group 1 is a non-empty run of
\* characters other than '-' and '>' ending right before the arrow; group 2
\* is the non-empty run of characters other than '(' after it, and the
\* first '(' after the arrow has to open the literal (ESTABLISHED).
NotArrowChar(c) == c # "-" /\ c # ">"
FirstParenAfter(s, j) ==
  IF \E p \in (j + 2)..Len(s) : s[p] = "("
  THEN CHOOSE p \in (j + 2)..Len(s) : s[p] = "(" /\ \A q \in (j + 2)..(p - 1) : s[q] # "("
  ELSE 0
MatchingArrows(s) ==
  {j \in 2..(Len(s) - 1) :
     /\ s[j] = "-" /\ s[j + 1] = ">"
     /\ NotArrowChar(s[j - 1])
     /\ LET p == FirstParenAfter(s, j)
        IN /\ p >= j + 3
           /\ SubSeq(s, p, p + Len(sParenEstablished) - 1) = sParenEstablished}

\* The leftmost match: match[1] and match[2] (the engine tries the start
\* positions from the left, so the first usable arrow wins, with the whole
\* run before it as group 1).
EstablishedMatch(s) ==
  LET j     == NthOf(MatchingArrows(s), 1)
      start == CHOOSE i \in 1..(j - 1) :
                 /\ \A k \in i..(j - 1) : NotArrowChar(s[k])
                 /\ (i = 1 \/ ~NotArrowChar(s[i - 1]))
      p     == FirstParenAfter(s, j)
  IN << SubSeq(s, start, j - 1), SubSeq(s, j + 2, p - 1) >>

\* The records one line of lsof output contributes.
MacConnectionLine(line) ==
  IF ~Includes(line, sTCP) \/ ~Includes(line, sESTABLISHED) THEN <<>>
  ELSE LET parts == SplitWs(line)
       IN IF Len(parts) < 9 THEN <<>>
          ELSE LET process  == parts[1]
                   pid      == parts[2]
                   type     == parts[4]
                   namePart == JoinFrom(parts, 9)
               IN IF MatchingArrows(namePart) = {} THEN <<>>
                  ELSE LET match  == EstablishedMatch(namePart)
                           local  == Trim(match[1])
                           remote == Trim(match[2])
                       IN << [protocol |-> sTCP, local |-> local, remote |-> remote,
                              state |-> sESTABLISHED,
                              process |-> process \o <<" ", "(">> \o pid \o <<")">>,
                              family |-> type,
                              id |-> sTCP \o Bar \o local \o Bar \o remote \o Bar
                                     \o sESTABLISHED \o Bar \o process \o Bar \o pid] >>

\* The records one line (not the first) of ss or netstat output contributes.
UnixConnectionLine(line) ==
  IF ~Includes(line, <<":">>) THEN <<>>
  ELSE LET parts == SplitWs(line)
       IN IF Len(parts) >= 5
          THEN LET protocol == ToUpperCase(OrDefault(parts, 0, sTCP))
                   state    == OrDefault(parts, 1, sESTABLISHED)
                   local    == OrDefault(parts, 4, parts[4])
                   remote   == OrDefault(parts, 5, parts[5])
                   process  == OrDefault(parts, 6, sUnknown)
               IN IF local # <<>> /\ remote # <<>> /\ remote # <<"*">>
                     /\ ~Includes(remote, sStarStar)
                  THEN << [protocol |-> protocol, local |-> local, remote |-> remote,
                           state |-> state, process |-> process, family |-> Undefined,
                           id |-> protocol \o Bar \o local \o Bar \o remote \o Bar \o state] >>
                  ELSE <<>>
          ELSE <<>>

\* Variant: the first line after idx 0 that contributes no record ends the
\* parse.
RECURSIVE ConnectionLinesStoppingAtSkip(_, _, _)
ConnectionLinesStoppingAtSkip(lines, idx, os) ==
  IF idx > Len(lines) THEN <<>>
  ELSE LET records == IF os = "windows" THEN WindowsConnectionLine(lines[idx])
                      ELSE IF os = "mac" THEN MacConnectionLine(lines[idx])
                      ELSE IF idx = 1 THEN <<>>
                      ELSE UnixConnectionLine(lines[idx])
       IN IF idx > 1 /\ records = <<>> THEN <<>>
          ELSE records \o ConnectionLinesStoppingAtSkip(lines, idx + 1, os)

\* lines.forEach pushing onto the result; only the Unix branch skips idx 0.
RECURSIVE ConnectionLinesFrom(_, _, _)
ConnectionLinesFrom(lines, idx, os) ==
  IF idx > Len(lines) THEN <<>>
  ELSE (IF os = "windows" THEN WindowsConnectionLine(lines[idx])
        ELSE IF os = "mac" THEN MacConnectionLine(lines[idx])
        ELSE IF idx = 1 THEN <<>>
        ELSE UnixConnectionLine(lines[idx]))
       \o ConnectionLinesFrom(lines, idx + 1, os)

parseConnections(output, os) ==
  ConnectionLinesFrom(SplitLines(output), 1, os)


(***************************************************************************)
(* The tool outputs the poll cycles of the model receive.                  *)
(***************************************************************************)

\* tokens.join(' ')
Line(tokens) == JoinFrom(tokens, 1)
\* Lines joined into one output, each ended by a line break.
RECURSIVE Text(_)
Text(lines) == IF lines = <<>> THEN <<>> ELSE Head(lines) \o <<"\n">> \o Text(Tail(lines))

tA1 == <<"a", ":", "1">>
tB2 == <<"b", ":", "2">>
tP == <<"P">>
t0 == <<"0">>
t7 == <<"7">>
tX == <<"x">>

\* netstat -ano: a title line, a socket in a conversation, a listening socket
WinConnHead == <<"A", "c", "t", "i", "v", "e">>
WinConnLine == Line(<<sTCP, tA1, tB2, <<"E">>, t7>>)
WinConnListen == Line(<<sTCP, tA1, sAnyV4, <<"L">>, t7>>)
\* lsof -iTCP -sTCP:ESTABLISHED -n -P
MacConnHead == Line(<<<<"C">>, tP, <<"U">>, <<"F">>, <<"T">>, <<"D">>, <<"S">>, <<"N">>, <<"N">>>>)
MacConnLine == Line(<<tX, t7, <<"u">>, <<"5", "u">>, <<"I", "P", "v", "4">>, <<"d">>, t0, sTCP,
                      tA1 \o <<"-", ">">> \o tB2, sParenEstablished>>)
MacConnOther == Line(<<tX, t7, <<"u">>, <<"5", "u">>, <<"I", "P", "v", "4">>, <<"d">>, t0, sTCP,
                       <<"*", ":", "1">>, <<"(", "L", ")">>>>)
\* ss -tunap
UnixConnHead == Line(<<<<"N">>, <<"S">>, <<"R">>, <<"S">>, <<"L">>, tP>>)
UnixConnLine == Line(<<<<"t", "c", "p">>, <<"E">>, t0, t0, tA1, tB2, tX>>)
UnixConnListen == Line(<<<<"t", "c", "p">>, <<"L">>, t0, t0, tA1, sStarStar>>)

ConnHead(os) ==
  IF os = "windows" THEN WinConnHead
  ELSE IF os = "mac" THEN MacConnHead ELSE UnixConnHead
ConnLine(os) ==
  IF os = "windows" THEN WinConnLine
  ELSE IF os = "mac" THEN MacConnLine ELSE UnixConnLine
ConnNoise(os) ==
  IF os = "windows" THEN WinConnListen
  ELSE IF os = "mac" THEN MacConnOther ELSE UnixConnListen

\* What the connections command can print: no conversation, or one.
ConnOutputs(os) ==
  << Text(<<ConnHead(os), ConnNoise(os)>>),
     Text(<<ConnHead(os), ConnNoise(os), ConnLine(os)>>) >>

\* A process id in decimal digits
DigitChars == <<"0", "1", "2", "3", "4", "5", "6", "7", "8", "9">>
RECURSIVE Decimal(_)
Decimal(n) ==
  IF n < 10 THEN <<DigitChars[n + 1]>>
  ELSE Decimal(n \div 10) \o <<DigitChars[(n % 10) + 1]>>

\* tasklist /v /fo csv: the header, the line of process pid, a line cut short
Quoted(f) == <<"\"">> \o f \o <<"\"">>
WinProcHead == Quoted(<<"I">>) \o <<",">> \o Quoted(tP)
WinProcLineOf(pid) == Quoted(tX) \o <<",">> \o Quoted(pid) \o <<"\r">>
WinProcLine == WinProcLineOf(t7)
WinProcBad == <<"\"">> \o tX
\* ps aux: the header, the line of process pid, a line cut short
UnixProcHead == Line(<<<<"U">>, tP, <<"C">>, <<"M">>, <<"V">>, <<"R">>, <<"T">>, <<"S">>,
                       <<"S">>, <<"T">>, <<"C">>>>)
UnixProcLineOf(pid) == Line(<<<<"u">>, pid, t0, t0, t0, t0, <<"?">>, <<"S">>, t0, t0, tX>>)
UnixProcLine == UnixProcLineOf(t7)
UnixProcBad == Line(<<<<"u">>, t7, t0>>)

ProcHead(os) == IF os = "windows" THEN WinProcHead ELSE UnixProcHead
ProcLine(os) == IF os = "windows" THEN WinProcLine ELSE UnixProcLine
ProcLineOf(os, n) ==
  IF os = "windows" THEN WinProcLineOf(Decimal(n)) ELSE UnixProcLineOf(Decimal(n))
ProcNoise(os) == IF os = "windows" THEN WinProcBad ELSE UnixProcBad

\* What the processes command can print: no process line, or one.
ProcOutputs(os) ==
  << Text(<<ProcHead(os), ProcNoise(os)>>),
     Text(<<ProcHead(os), ProcNoise(os), ProcLine(os)>>) >>

\* The parsers applied to each of those outputs, by platform.
ParsedConnections(os) ==
  << parseConnections(ConnOutputs(os)[1], os), parseConnections(ConnOutputs(os)[2], os) >>
ParsedProcesses(os) ==
  << parseProcesses(ProcOutputs(os)[1], os), parseProcesses(ProcOutputs(os)[2], os) >>
OsTypes == {"windows", "mac", "unix"}
ConnectionsOf ==
  [windows |-> ParsedConnections("windows"),
   mac     |-> ParsedConnections("mac"),
   unix    |-> ParsedConnections("unix")]
ProcessesOf ==
  [windows |-> ParsedProcesses("windows"),
   mac     |-> ParsedProcesses("mac"),
   unix    |-> ParsedProcesses("unix")]

\* What a poll on platform os can read: the record lists of its sample outputs.
ConnectionResults(os) == {ConnectionsOf[os][i] : i \in DOMAIN ConnectionsOf[os]}
ProcessResults(os) == {ProcessesOf[os][i] : i \in DOMAIN ProcessesOf[os]}

(***************************************************************************)
(* Lines the tools can print, by tool and platform: the lines a parser     *)
(* turns into a record, the lines it filters, and the lines that do not    *)
(* have the shape it expects.                                              *)
(***************************************************************************)

\* netstat -ano
WinConnNoState ==
  <<"T", "C", "P", " ", "a", ":", "1", " ", "b", ":", "2">>
WinConnNoRemote ==
  <<"T", "C", "P", " ", "a", ":", "1">>
WinConnTitle ==
  <<"P", "r", "o", "t", "o", " ", "L", "o", "c", "a", "l", " ", "F", "o", "r",
    "e", "i", "g", "n", " ", "S", "t", "a", "t", "e", " ", "P", "I", "D">>
WinConnListenV6 ==
  <<"T", "C", "P", " ", "[", ":", ":", "]", ":", "1", " ", "[", ":", ":", "]",
    ":", "0", " ", "L", " ", "7">>
WinConnUdp ==
  <<"U", "D", "P", " ", "a", ":", "1", " ", "*", ":", "*", " ", "7">>
WinConnMenu ==
  << WinConnLine, WinConnNoState, WinConnNoRemote, WinConnTitle, WinConnListenV6, WinConnUdp >>
WinConnMalformed == {3, 4}

\* lsof -iTCP -sTCP:ESTABLISHED -n -P
MacConnExample ==
  <<"c", "h", "r", "o", "m", "e", " ", "1", "2", "3", "4", "5", " ", "u", "s",
    "e", "r", " ", "5", "0", "u", " ", "I", "P", "v", "6", " ", "0", "x", "a",
    "b", "c", " ", "0", "t", "0", " ", "T", "C", "P", " ", "[", ":", ":", "1",
    "]", ":", "5", "4", "3", "2", "1", "-", ">", "e", "x", "a", "m", "p", "l",
    "e", ".", "c", "o", "m", ":", "4", "4", "3", " ", "(", "E", "S", "T", "A",
    "B", "L", "I", "S", "H", "E", "D", ")">>
MacConnClosing ==
  <<"x", " ", "7", " ", "u", " ", "5", "u", " ", "I", "P", "v", "4", " ", "d",
    " ", "0", " ", "T", "C", "P", " ", "a", ":", "1", "-", ">", "b", ":", "2",
    " ", "(", "C", "L", "O", "S", "E", "_", "W", "A", "I", "T", ")">>
MacConnShort ==
  <<"x", " ", "7", " ", "T", "C", "P", " ", "(", "E", "S", "T", "A", "B", "L",
    "I", "S", "H", "E", "D", ")">>
MacConnNoArrow ==
  <<"x", " ", "7", " ", "u", " ", "5", "u", " ", "I", "P", "v", "4", " ", "d",
    " ", "0", " ", "T", "C", "P", " ", "a", ":", "1", " ", "(", "E", "S", "T",
    "A", "B", "L", "I", "S", "H", "E", "D", ")">>
MacConnMenu ==
  << MacConnLine, MacConnExample, MacConnClosing, MacConnShort, MacConnNoArrow >>
MacConnMalformed == {3, 4, 5}

\* ss -tunap
UnixConnListenAny ==
  <<"t", "c", "p", " ", "L", " ", "0", " ", "0", " ", "a", ":", "1", " ", "0",
    ".", "0", ".", "0", ".", "0", ":", "*">>
UnixConnShort ==
  <<"t", "c", "p", " ", "E", " ", "a", ":", "1">>
UnixConnNoColon ==
  <<"x", " ", "y">>
UnixConnStar ==
  <<"t", "c", "p", " ", "L", " ", "0", " ", "0", " ", "a", ":", "1", " ", "*">>
UnixConnMenu ==
  << UnixConnLine, UnixConnListen, UnixConnListenAny, UnixConnShort, UnixConnNoColon, UnixConnStar >>
UnixConnMalformed == {4, 5}

\* tasklist /v /fo csv
WinProcOneField ==
  <<"\"", "x", "\"">>
WinProcExample ==
  <<"\"", "c", "h", "r", "o", "m", "e", ".", "e", "x", "e", "\"", ",", "\"",
    "1", "2", "3", "4", "\"", ",", "\"", "C", "o", "n", "s", "o", "l", "e",
    "\"", ",", "\"", "1", "\"", ",", "\"", "5", "0", ",", "0", "0", "0", " ",
    "K", "\"", ",", "\"", "N", "/", "A", "\"", ",", "\"", "u", "s", "e", "r",
    "1", "\"", ",", "\"", "2", "\"">>
WinProcMenu == << WinProcLine, WinProcBad, WinProcOneField, WinProcExample >>
WinProcMalformed == {2, 3}

\* ps aux
UnixProcMenu == << UnixProcLine, UnixProcBad >>
UnixProcMalformed == {2}

ToolKinds == {"connections", "processes"}

\* The first line of the tool's output
HeadOf(kind, os) == IF kind = "connections" THEN ConnHead(os) ELSE ProcHead(os)

\* The lines the tool of this kind can print on platform os
MenuOf(kind, os) ==
  IF kind = "connections"
  THEN (IF os = "windows" THEN WinConnMenu
        ELSE IF os = "mac" THEN MacConnMenu ELSE UnixConnMenu)
  ELSE (IF os = "windows" THEN WinProcMenu ELSE UnixProcMenu)

\* Those of them that do not have the shape the parser expects
MalformedOf(kind, os) ==
  IF kind = "connections"
  THEN (IF os = "windows" THEN WinConnMalformed
        ELSE IF os = "mac" THEN MacConnMalformed ELSE UnixConnMalformed)
  ELSE (IF os = "windows" THEN WinProcMalformed ELSE UnixProcMalformed)

\* parseConnections or parseProcesses, as monitor calls them (lines 304, 317)
ParseOf(kind, output, os) ==
  IF kind = "connections" THEN parseConnections(output, os) ELSE parseProcesses(output, os)

(***************************************************************************)
(* The monitoring session: startMonitoring, the interval timer and the     *)
(* poll cycles (invocations of monitor) it starts.                         *)
(*                                                                         *)
(* A cycle is suspended only at its awaits of executeCommand; the code     *)
(* between two awaits runs as one step, and the Date.now() reads of one    *)
(* such step return the same millisecond.  Time passes between steps, from *)
(* one due time of the timer to the next.                                  *)
(***************************************************************************)

\* setInterval period and the highlight window, in milliseconds
Period == 10000
HighlightWindow == 30000

\* Timer ticks the model follows, and poll cycles it lets be in flight at once.
MaxTicks == 5
MaxInFlight == 2
\* Lines after the header in a process listing under test; lines cut short
\* occur among the first EdgeLines of them and from the ProcessCap-th on.
MaxLines == 53
EdgeLines == 2
\* Lines after the header in an output put together from the lines above.
MaxMenuLines == 3
\* Fields of a tasklist line put together field by field.
MaxFields == 8
\* Timer ticks followed while the history of each cycle's poll is recorded.
MaxRaceTicks == 2

VARIABLES
  flags,                    \* parseArgs(): which kinds are monitored
  osType,                   \* detectOS()
  running,                  \* the process has not exited
  clock,                    \* Date.now(), ms since startMonitoring
  nextTick,                 \* when the interval timer is next due
  started,                  \* invocations of monitor so far
  cycles,                   \* the invocations suspended on a command, by number
  previousConnections,
  previousProcesses,
  newConnectionTimestamps,
  newProcessTimestamps,
  frame,                    \* what the step leading here drew, if it ended a cycle
  ended,                    \* history: the cycle that step ended, and how it went
  presentConnections,       \* history: the keys of the latest poll, each with the
  presentProcesses,         \*   instant of the first of the consecutive polls holding it
  seenConnections,          \* history: keys observed in any poll so far
  seenProcesses,
  connectionPolls,          \* history: the keys of each cycle's connections poll, by cycle
  connectionInsertions,     \* history: the newConnectionTimestamps.set calls, by key
  toolOutput,               \* the parsers on their own: the output under test,
  toolKind,                 \*   the kind of tool that printed it,
  toolOs,                   \*   the platform variant,
  toolPlan,                 \*   history: what each line after the header was made of
  parsed,                   \*   the records returned,
  parseDone                 \*   and whether the parser has returned

monitorVars == <<flags, osType, running, clock, nextTick, started, cycles,
                 previousConnections, previousProcesses,
                 newConnectionTimestamps, newProcessTimestamps, frame, ended,
                 presentConnections, presentProcesses, seenConnections, seenProcesses,
                 connectionPolls, connectionInsertions>>
raceVars == <<connectionPolls, connectionInsertions>>
parserVars == <<toolOutput, toolKind, toolOs, toolPlan, parsed, parseDone>>
vars == <<monitorVars, parserVars>>

\* startMonitoring exits unless -c or -p is given
FlagChoices == { [connections |-> TRUE, processes |-> TRUE],
                 [connections |-> TRUE, processes |-> FALSE],
                 [connections |-> FALSE, processes |-> TRUE] }

EmptyMap == <<>>
NoFrame == [connections |-> <<>>, processes |-> <<>>]
NoneEnded == [id |-> 0, outcome |-> "none", failedKind |-> "none",
              connectionExecs |-> 0, processExecs |-> 0,
              backConnections |-> EmptyMap, backProcesses |-> EmptyMap]

\* connections.map(c => c.id) as a Set
Ids(records) == {records[i].id : i \in 1..Len(records)}

\* Variant: the membership test against the previous set dropped.
AlwaysNewlySeen(previous, id) == TRUE

\* !previous.has(id)
IsNewlySeen(previous, id) == id \notin previous

\* Variant: set only if the map has no entry for the key.
TrackKeepingEntries(previous, timestamps, records, now) ==
  LET fresh == {id \in Ids(records) : IsNewlySeen(previous, id) /\ id \notin DOMAIN timestamps}
  IN [k \in DOMAIN timestamps \cup fresh |-> IF k \in fresh THEN now ELSE timestamps[k]]

\* records.forEach(r => { if (!previous.has(r.id)) timestamps.set(r.id, Date.now()) })
Track(previous, timestamps, records, now) ==
  LET fresh == {id \in Ids(records) : IsNewlySeen(previous, id)}
  IN [k \in DOMAIN timestamps \cup fresh |-> IF k \in fresh THEN now ELSE timestamps[k]]

\* Variant: the keys of the poll added to the previous set.
MergedInto(previous, currentIds) == previous \cup currentIds

\* Variant: the previous set left as it is when the insertions are done.
LeftForLater(previous, currentIds) == previous

\* previousConnections = currentConnIds / previousProcesses = currentProcIds
ReplacedBy(previous, currentIds) == currentIds

\* Variant: a sweep that lets an entry live one period longer.
ExpiredLater(now, timestamp) == now - timestamp > HighlightWindow + Period

\* now - timestamp > 30000
Expired(now, timestamp) == now - timestamp > HighlightWindow

\* for (const [id, timestamp] of entries) if (now - timestamp > 30000) delete(id)
Sweep(timestamps, now) ==
  [k \in {j \in DOMAIN timestamps : ~Expired(now, timestamps[j])} |-> timestamps[k]]

\* Variant: the window closed one millisecond late (<= for <).
IsNewInclusive(timestamps, id, now) ==
  id \in DOMAIN timestamps /\ now - timestamps[id] <= HighlightWindow

\* timestamps.has(id) && (now - timestamps.get(id)) < 30000
IsNew(timestamps, id, now) ==
  id \in DOMAIN timestamps /\ now - timestamps[id] < HighlightWindow

\* Variant: every record with an entry is drawn new, whatever its age.
DisplayIgnoringAge(records, timestamps, now) ==
  [i \in 1..Len(records) |->
     [id |-> records[i].id, isNew |-> records[i].id \in DOMAIN timestamps]]

\* displayConnections / displayProcesses: the records drawn, with their highlight
Display(records, timestamps, now) ==
  [i \in 1..Len(records) |->
     [id |-> records[i].id, isNew |-> IsNew(timestamps, records[i].id, now)]]

\* Variant: the connections command is executed whatever the flags say.
NewCycleBothKinds ==
  [pc |-> "connections",
   connections |-> <<>>,
   connectionExecs |-> 1,
   processExecs |-> 0,
   backConnections |-> EmptyMap]

\* The first suspension of monitor: the command of the first enabled kind is
\* executed and the invocation waits for it.
NewCycle ==
  [pc |-> IF flags.connections THEN "connections" ELSE "processes",
   connections |-> <<>>,
   connectionExecs |-> IF flags.connections THEN 1 ELSE 0,
   processExecs |-> IF flags.connections THEN 0 ELSE 1,
   backConnections |-> EmptyMap]

\* Variant: an overlap guard, a tick is skipped while a cycle is in flight.
OnlyWhenIdle(inFlight) == inFlight = {}

\* The interval callback starts a poll cycle whatever is still in flight.
StartsCycle(inFlight) == TRUE

\* History: the keys of a poll, each with the instant of the first of the
\* consecutive polls holding it.
PresentAfter(present, ids, now) ==
  [k \in ids |-> IF k \in DOMAIN present THEN present[k] ELSE now]
\* History: the keys of a poll that had been seen before and were absent
\* from the poll before it, with the instant of the poll.
Back(present, seen, ids, now) ==
  [k \in {j \in ids : j \notin DOMAIN present /\ j \in seen} |-> now]

Remove(f, c) == [d \in DOMAIN f \ {c} |-> f[d]]

\* A step that ends no cycle draws nothing.
NothingEnds == frame' = NoFrame /\ ended' = NoneEnded

ParserIdle ==
  /\ toolOutput = <<>> /\ toolKind = "processes" /\ toolOs = "unix" /\ toolPlan = <<>>
  /\ parsed = <<>> /\ parseDone = FALSE

Init ==
  /\ flags \in FlagChoices
  /\ osType \in OsTypes
  /\ running = TRUE
  /\ clock = 0
  /\ nextTick = Period
  /\ started = 1
  /\ cycles = [c \in {1} |-> NewCycle]
  /\ previousConnections = {}
  /\ previousProcesses = {}
  /\ newConnectionTimestamps = EmptyMap
  /\ newProcessTimestamps = EmptyMap
  /\ frame = NoFrame
  /\ ended = NoneEnded
  /\ presentConnections = EmptyMap
  /\ presentProcesses = EmptyMap
  /\ seenConnections = {}
  /\ seenProcesses = {}
  /\ connectionPolls = EmptyMap
  /\ connectionInsertions = EmptyMap
  /\ ParserIdle

\* setInterval(() => monitor(osType, flags), 10000) fires.
Tick ==
  /\ running
  /\ clock >= nextTick
  /\ Cardinality(DOMAIN cycles) < MaxInFlight
  /\ nextTick' = nextTick + Period
  /\ IF StartsCycle(DOMAIN cycles)
     THEN /\ started' = started + 1
          /\ cycles' = [c \in DOMAIN cycles \cup {started + 1} |->
                          IF c = started + 1 THEN NewCycle ELSE cycles[c]]
     ELSE UNCHANGED <<started, cycles>>
  /\ NothingEnds
  /\ UNCHANGED <<flags, osType, running, clock, previousConnections, previousProcesses,
                 newConnectionTimestamps, newProcessTimestamps,
                 presentConnections, presentProcesses, seenConnections, seenProcesses>>
  /\ UNCHANGED parserVars

\* Time passes until the timer is next due.
Advance ==
  /\ running
  /\ clock < nextTick
  /\ nextTick <= MaxTicks * Period
  /\ clock' = nextTick
  /\ NothingEnds
  /\ UNCHANGED <<flags, osType, running, nextTick, started, cycles,
                 previousConnections, previousProcesses,
                 newConnectionTimestamps, newProcessTimestamps,
                 presentConnections, presentProcesses, seenConnections, seenProcesses>>
  /\ UNCHANGED parserVars

\* History: what a cycle leaves behind when it ends.
Summary(c, outcome, failedKind, backConnections, backProcesses) ==
  [id |-> c, outcome |-> outcome, failedKind |-> failedKind,
   connectionExecs |-> cycles[c].connectionExecs,
   processExecs |-> cycles[c].processExecs,
   backConnections |-> backConnections, backProcesses |-> backProcesses]

\* The tail of monitor (lines 328-349) for a cycle whose local lists are
\* connections and processes: the sweep of both maps, then the draw of the
\* enabled kinds.
Finish(c, connections, processes, trackedConnections, trackedProcesses, now, summary) ==
  /\ newConnectionTimestamps' = Sweep(trackedConnections, now)
  /\ newProcessTimestamps' = Sweep(trackedProcesses, now)
  /\ frame' = [connections |-> IF flags.connections
                               THEN Display(connections, newConnectionTimestamps', now)
                               ELSE <<>>,
               processes |-> IF flags.processes
                             THEN Display(processes, newProcessTimestamps', now)
                             ELSE <<>>]
  /\ ended' = summary
  /\ cycles' = Remove(cycles, c)

\* Variant: a catch that ends the process (process.exit) after logging.
CatchExits(c, kind) ==
  /\ ended' = Summary(c, "aborted", kind, cycles[c].backConnections, EmptyMap)
  /\ frame' = NoFrame
  /\ cycles' = Remove(cycles, c)
  /\ running' = FALSE
  /\ UNCHANGED <<flags, osType, clock, nextTick, started,
                 previousConnections, previousProcesses,
                 newConnectionTimestamps, newProcessTimestamps,
                 presentConnections, presentProcesses, seenConnections, seenProcesses>>

\* The catch of monitor (lines 351-353): the error is logged and the
\* invocation returns; nothing else of the cycle runs.
Catch(c, kind) ==
  /\ ended' = Summary(c, "aborted", kind, cycles[c].backConnections, EmptyMap)
  /\ frame' = NoFrame
  /\ cycles' = Remove(cycles, c)
  /\ UNCHANGED <<flags, osType, running, clock, nextTick, started,
                 previousConnections, previousProcesses,
                 newConnectionTimestamps, newProcessTimestamps,
                 presentConnections, presentProcesses, seenConnections, seenProcesses>>

\* executeCommand(commands.connections) resolves and its output parses to
\* connections: lines 304-312, then either the processes command is executed (line 316)
\* or, with processes off, the cycle runs to its end.
ConnectionsResolved(c, connections) ==
  /\ running
  /\ c \in DOMAIN cycles
  /\ cycles[c].pc = "connections"
  /\ LET currentConnIds == Ids(connections)
         now            == clock
         tracked        == Track(previousConnections, newConnectionTimestamps,
                                 connections, now)
         back           == Back(presentConnections, seenConnections, currentConnIds, now)
     IN /\ previousConnections' = ReplacedBy(previousConnections, currentConnIds)
        /\ presentConnections' = PresentAfter(presentConnections, currentConnIds, now)
        /\ seenConnections' = seenConnections \cup currentConnIds
        /\ IF flags.processes
           THEN /\ newConnectionTimestamps' = tracked
                /\ cycles' = [cycles EXCEPT ![c] =
                                [pc |-> "processes", connections |-> connections,
                                 connectionExecs |-> @.connectionExecs,
                                 processExecs |-> @.processExecs + 1,
                                 backConnections |-> back]]
                /\ NothingEnds
                /\ UNCHANGED newProcessTimestamps
           ELSE Finish(c, connections, <<>>, tracked, newProcessTimestamps, now,
                       Summary(c, "rendered", "none", back, EmptyMap))
  /\ UNCHANGED <<flags, osType, running, clock, nextTick, started,
                 previousProcesses, presentProcesses, seenProcesses>>
  /\ UNCHANGED parserVars

\* executeCommand(commands.connections) rejects.
ConnectionsRejected(c) ==
  /\ running
  /\ c \in DOMAIN cycles
  /\ cycles[c].pc = "connections"
  /\ Catch(c, "connections")
  /\ UNCHANGED parserVars

\* executeCommand(commands.processes) resolves and its output parses to
\* processes: lines 317-349.
ProcessesResolved(c, processes) ==
  /\ running
  /\ c \in DOMAIN cycles
  /\ cycles[c].pc = "processes"
  /\ LET currentProcIds == Ids(processes)
         now            == clock
         tracked        == Track(previousProcesses, newProcessTimestamps, processes, now)
         back           == Back(presentProcesses, seenProcesses, currentProcIds, now)
     IN /\ previousProcesses' = ReplacedBy(previousProcesses, currentProcIds)
        /\ presentProcesses' = PresentAfter(presentProcesses, currentProcIds, now)
        /\ seenProcesses' = seenProcesses \cup currentProcIds
        /\ Finish(c, cycles[c].connections, processes, newConnectionTimestamps, tracked,
                  now, Summary(c, "rendered", "none", cycles[c].backConnections, back))
  /\ UNCHANGED <<flags, osType, running, clock, nextTick, started,
                 previousConnections, presentConnections, seenConnections>>
  /\ UNCHANGED parserVars

\* executeCommand(commands.processes) rejects.
ProcessesRejected(c) ==
  /\ running
  /\ c \in DOMAIN cycles
  /\ cycles[c].pc = "processes"
  /\ Catch(c, "processes")
  /\ UNCHANGED parserVars

\* process.on('SIGINT', ...): process.exit(0) discards everything.
Sigint ==
  /\ running
  /\ running' = FALSE
  /\ clock' = 0 /\ nextTick' = 0 /\ started' = 0
  /\ cycles' = EmptyMap
  /\ previousConnections' = {} /\ previousProcesses' = {}
  /\ newConnectionTimestamps' = EmptyMap /\ newProcessTimestamps' = EmptyMap
  /\ NothingEnds
  /\ presentConnections' = EmptyMap /\ presentProcesses' = EmptyMap
  /\ seenConnections' = {} /\ seenProcesses' = {}
  /\ UNCHANGED <<flags, osType>>
  /\ UNCHANGED parserVars

\* Next leaves the per-cycle history of the connection polls unrecorded.
Unrecorded == UNCHANGED raceVars

Next ==
  \/ Tick /\ Unrecorded
  \/ Advance /\ Unrecorded
  \/ \E c \in DOMAIN cycles, connections \in ConnectionResults(osType) :
        ConnectionsResolved(c, connections) /\ Unrecorded
  \/ \E c \in DOMAIN cycles : ConnectionsRejected(c) /\ Unrecorded
  \/ \E c \in DOMAIN cycles, processes \in ProcessResults(osType) :
        ProcessesResolved(c, processes) /\ Unrecorded
  \/ \E c \in DOMAIN cycles : ProcessesRejected(c) /\ Unrecorded
  \/ Sigint /\ Unrecorded

Spec == Init /\ [][Next]_vars

(***************************************************************************)
(* The same session with the history of the connection polls recorded:     *)
(* which keys the poll of each cycle held, cycles numbered in the order    *)
(* the timer started them, and how often newConnectionTimestamps.set ran   *)
(* for each key.                                                           *)
(***************************************************************************)

\* History of lines 304-311 for cycle c: the keys of its poll, and one more
\* set call for each of them that previousConnections lacks.
RecordPoll(c, connections) ==
  LET currentConnIds == Ids(connections)
      fresh == {id \in currentConnIds : IsNewlySeen(previousConnections, id)}
  IN /\ connectionPolls' =
          [d \in DOMAIN connectionPolls \cup {c} |->
             IF d = c THEN currentConnIds ELSE connectionPolls[d]]
     /\ connectionInsertions' =
          [k \in DOMAIN connectionInsertions \cup fresh |->
             (IF k \in DOMAIN connectionInsertions THEN connectionInsertions[k] ELSE 0)
             + (IF k \in fresh THEN 1 ELSE 0)]

\* process.exit(0) discards the history with everything else.
Forgotten == connectionPolls' = EmptyMap /\ connectionInsertions' = EmptyMap

NextRace ==
  \/ Tick /\ Unrecorded
  \/ Advance /\ nextTick <= MaxRaceTicks * Period /\ Unrecorded
  \/ \E c \in DOMAIN cycles, connections \in ConnectionResults(osType) :
        ConnectionsResolved(c, connections) /\ RecordPoll(c, connections)
  \/ \E c \in DOMAIN cycles : ConnectionsRejected(c) /\ Unrecorded
  \/ \E c \in DOMAIN cycles, processes \in ProcessResults(osType) :
        ProcessesResolved(c, processes) /\ Unrecorded
  \/ \E c \in DOMAIN cycles : ProcessesRejected(c) /\ Unrecorded
  \/ Sigint /\ Forgotten

SpecRace == Init /\ [][NextRace]_vars

(***************************************************************************)
(* parseProcesses on its own: a process listing is put together line by    *)
(* line and handed to the parser.  No monitoring session runs.             *)
(***************************************************************************)

MonitorOff ==
  /\ flags = [connections |-> TRUE, processes |-> TRUE]
  /\ osType = "unix"
  /\ running = FALSE
  /\ clock = 0 /\ nextTick = 0 /\ started = 0
  /\ cycles = EmptyMap
  /\ previousConnections = {} /\ previousProcesses = {}
  /\ newConnectionTimestamps = EmptyMap /\ newProcessTimestamps = EmptyMap
  /\ frame = NoFrame /\ ended = NoneEnded
  /\ presentConnections = EmptyMap /\ presentProcesses = EmptyMap
  /\ seenConnections = {} /\ seenProcesses = {}
  /\ connectionPolls = EmptyMap /\ connectionInsertions = EmptyMap

InitParse ==
  /\ MonitorOff
  /\ toolKind = "processes"
  /\ toolOs \in OsTypes
  /\ toolOutput = ProcHead(toolOs) \o <<"\n">>
  /\ toolPlan = <<>>
  /\ parsed = <<>>
  /\ parseDone = FALSE

\* Where the listing under test may hold a line cut short.
MalformedAllowed(position) == position <= EdgeLines \/ position >= ProcessCap

\* The tool prints one more line: the line of the process whose pid is the
\* line's number, or a line cut short.
EmitProcessLine(wellFormed) ==
  /\ ~parseDone
  /\ Len(toolPlan) < MaxLines
  /\ wellFormed \/ MalformedAllowed(Len(toolPlan) + 1)
  /\ toolOutput' = toolOutput
                   \o (IF wellFormed THEN ProcLineOf(toolOs, Len(toolPlan) + 1)
                       ELSE ProcNoise(toolOs))
                   \o <<"\n">>
  /\ toolPlan' = Append(toolPlan, wellFormed)
  /\ UNCHANGED <<toolKind, toolOs, parsed, parseDone>>
  /\ UNCHANGED monitorVars

\* processes = parseProcesses(output, osType)
RunParseProcesses ==
  /\ ~parseDone
  /\ parsed' = parseProcesses(toolOutput, toolOs)
  /\ parseDone' = TRUE
  /\ UNCHANGED <<toolOutput, toolKind, toolOs, toolPlan>>
  /\ UNCHANGED monitorVars

NextParse ==
  \/ \E wellFormed \in BOOLEAN : EmitProcessLine(wellFormed)
  \/ RunParseProcesses

SpecParse == InitParse /\ [][NextParse]_vars

(***************************************************************************)
(* Either parser on its own, on outputs put together from the lines a      *)
(* tool can print.  toolPlan holds the numbers of the lines chosen.        *)
(***************************************************************************)

InitLines ==
  /\ MonitorOff
  /\ toolKind \in ToolKinds
  /\ toolOs \in OsTypes
  /\ toolOutput = HeadOf(toolKind, toolOs) \o <<"\n">>
  /\ toolPlan = <<>>
  /\ parsed = <<>>
  /\ parseDone = FALSE

\* The tool prints one more line, the n-th of those it can print.
EmitLine(n) ==
  /\ ~parseDone
  /\ Len(toolPlan) < MaxMenuLines
  /\ n \in DOMAIN MenuOf(toolKind, toolOs)
  /\ toolOutput' = toolOutput \o MenuOf(toolKind, toolOs)[n] \o <<"\n">>
  /\ toolPlan' = Append(toolPlan, n)
  /\ UNCHANGED <<toolKind, toolOs, parsed, parseDone>>
  /\ UNCHANGED monitorVars

\* The output is handed to the parser of its kind.
RunParser ==
  /\ ~parseDone
  /\ parsed' = ParseOf(toolKind, toolOutput, toolOs)
  /\ parseDone' = TRUE
  /\ UNCHANGED <<toolOutput, toolKind, toolOs, toolPlan>>
  /\ UNCHANGED monitorVars

NextLines ==
  \/ \E n \in DOMAIN MenuOf(toolKind, toolOs) : EmitLine(n)
  \/ RunParser

SpecLines == InitLines /\ [][NextLines]_vars

(***************************************************************************)
(* The Windows branch of parseProcesses on one tasklist line put together  *)
(* field by field.  toolPlan holds the contents of the fields.             *)
(***************************************************************************)

\* What a field can hold: a word, text with a comma in it, nothing.
CsvFieldChoices == { tX, <<"5", ",", "0", " ", "K">>, <<>> }

\* The fields of the line "chrome.exe","1234","Console","1","50,000 K","N/A","user1","2"
CsvExampleFields ==
  << <<"c", "h", "r", "o", "m", "e", ".", "e", "x", "e">>, <<"1", "2", "3", "4">>,
     <<"C", "o", "n", "s", "o", "l", "e">>, <<"1">>,
     <<"5", "0", ",", "0", "0", "0", " ", "K">>, <<"N", "/", "A">>,
     <<"u", "s", "e", "r", "1">>, <<"2">> >>

\* The line tasklist /fo csv prints for these fields: each in double quotes,
\* commas between them, a carriage return before the line break.
RECURSIVE CsvJoin(_, _)
CsvJoin(fields, from) ==
  IF from > Len(fields) THEN <<>>
  ELSE IF from = Len(fields) THEN Quoted(fields[from])
  ELSE Quoted(fields[from]) \o <<",">> \o CsvJoin(fields, from + 1)
CsvLineOf(fields) == CsvJoin(fields, 1) \o <<"\r">>
CsvOutputOf(fields) == WinProcHead \o <<"\r", "\n">> \o CsvLineOf(fields) \o <<"\n">>

InitCsv ==
  /\ MonitorOff
  /\ toolKind = "processes"
  /\ toolOs = "windows"
  /\ toolPlan \in {<<>>, CsvExampleFields}
  /\ toolOutput = CsvOutputOf(toolPlan)
  /\ parsed = <<>>
  /\ parseDone = FALSE

\* The line gets one more field.
AddField(field) ==
  /\ ~parseDone
  /\ Len(toolPlan) < MaxFields
  /\ toolPlan' = Append(toolPlan, field)
  /\ toolOutput' = CsvOutputOf(toolPlan')
  /\ UNCHANGED <<toolKind, toolOs, parsed, parseDone>>
  /\ UNCHANGED monitorVars

NextCsv ==
  \/ \E field \in CsvFieldChoices : AddField(field)
  \/ RunParser

SpecCsv == InitCsv /\ [][NextCsv]_vars

(***************************************************************************)
(* Properties of the highlight tracking (specification Spec).              *)
(*                                                                         *)
(* frame and ended describe the cycle ended by the step leading to the     *)
(* state, so a predicate on them speaks of the instant right after that    *)
(* cycle's sweep and draw, with clock the time of both.                    *)
(***************************************************************************)

Rendered == ended.outcome = "rendered"
Aborted == ended.outcome = "aborted"

\* The entry of a key now present is the instant it came to be present.
EntriesAtFirstSight(present, timestamps) ==
  \A k \in DOMAIN present \cap DOMAIN timestamps : timestamps[k] = present[k]

\* A drawn record present since instant t is new exactly while less than
\* the window has passed since t.
DrawnByAge(drawn, present) ==
  \A i \in 1..Len(drawn) :
     drawn[i].id \in DOMAIN present =>
        drawn[i].isNew = (clock - present[drawn[i].id] < HighlightWindow)

\* C1: a record continuously present since the poll that first observed it
\* is drawn isNew = true by every cycle that renders less than 30,000 ms
\* after that poll and isNew = false by every cycle that renders at or after
\* 30,000 ms; while it stays present its first-seen timestamp stays the
\* instant of that poll.
C1_HighlightWindow ==
  /\ EntriesAtFirstSight(presentConnections, newConnectionTimestamps)
  /\ EntriesAtFirstSight(presentProcesses, newProcessTimestamps)
  /\ Rendered => /\ DrawnByAge(frame.connections, presentConnections)
                 /\ DrawnByAge(frame.processes, presentProcesses)

\* A cycle draws a connection exactly 30,000 ms after it first appeared:
\* its entry is still in the map and the record is no longer new.
C1_Witness ==
  /\ Rendered
  /\ \E i \in 1..Len(frame.connections) :
        LET k == frame.connections[i].id
        IN /\ k \in DOMAIN presentConnections
           /\ k \in DOMAIN newConnectionTimestamps
           /\ clock - presentConnections[k] = HighlightWindow
           /\ ~frame.connections[i].isNew

\* Every key in back is drawn, and drawn new.
ReappearedDrawnNew(back, drawn) ==
  \A k \in DOMAIN back : \E i \in 1..Len(drawn) : drawn[i].id = k /\ drawn[i].isNew

\* As above, for the keys whose reappearance is less than the window ago.
ReappearedDrawnNewInTime(back, drawn) ==
  \A k \in DOMAIN back :
     clock - back[k] < HighlightWindow =>
        \E i \in 1..Len(drawn) : drawn[i].id = k /\ drawn[i].isNew

NoneExpired(timestamps) ==
  \A k \in DOMAIN timestamps : clock - timestamps[k] <= HighlightWindow

\* C3: right after the sweep of a poll cycle neither timestamp map holds an
\* entry older than 30,000 ms, whether or not its key is among the records
\* of the current poll.
C3_SweepLeavesNoExpired ==
  Rendered => NoneExpired(newConnectionTimestamps) /\ NoneExpired(newProcessTimestamps)

\* A sweep has deleted the entry of a connection that is still present and
\* first appeared more than 30,000 ms ago.
C3_Witness ==
  /\ Rendered
  /\ \E k \in DOMAIN presentConnections :
        /\ clock - presentConnections[k] > HighlightWindow
        /\ k \notin DOMAIN newConnectionTimestamps

\* C4 as stated: an entry that exists is never overwritten, no step changes
\* the timestamp stored for a key that keeps its entry.
NeverOverwritten(timestamps, timestampsAfter) ==
  \A k \in DOMAIN timestamps \cap DOMAIN timestampsAfter : timestampsAfter[k] = timestamps[k]
C4_Original ==
  [][/\ NeverOverwritten(newConnectionTimestamps, newConnectionTimestamps')
     /\ NeverOverwritten(newProcessTimestamps, newProcessTimestamps')]_vars

\* C4: the entry of a key that is in the previous identity set is never
\* overwritten; the entry of a key absent from the previous identity set
\* is overwritten, when a poll holds the key, with the instant of that poll.
OverwrittenOnlyOnReturn(previous, timestamps, timestampsAfter, now) ==
  \A k \in DOMAIN timestamps \cap DOMAIN timestampsAfter :
     /\ k \in previous => timestampsAfter[k] = timestamps[k]
     /\ timestampsAfter[k] # timestamps[k] => timestampsAfter[k] = now
C4_Amended ==
  [][/\ OverwrittenOnlyOnReturn(previousConnections, newConnectionTimestamps,
                                newConnectionTimestamps', clock')
     /\ OverwrittenOnlyOnReturn(previousProcesses, newProcessTimestamps,
                                newProcessTimestamps', clock')]_vars

\* A process is back after an absence at a time when no sweep can have
\* deleted anything yet: its entry existed and now holds the current instant.
C4_Witness ==
  /\ Rendered
  /\ 0 < clock /\ clock <= HighlightWindow
  /\ \E k \in DOMAIN ended.backProcesses :
        k \in DOMAIN newProcessTimestamps /\ newProcessTimestamps[k] = clock

\* C5 as stated: a cycle in which a command fails still runs to its end, the
\* sweep is performed and the draw is reached.
C5_FailedCycleCompletes ==
  ended.failedKind # "none" => Rendered

\* C6 as stated: with both kinds enabled, a cycle in which the command of
\* one kind fails still executes the command of the other kind and draws
\* its records.
C6_OtherKindCompletes ==
  (flags.connections /\ flags.processes /\ ended.failedKind # "none") =>
     /\ ended.connectionExecs = 1
     /\ ended.processExecs = 1
     /\ ended.outcome = "rendered"

\* C7: a command failure does not end the session and leaves the timer as it
\* was; no cycle executes a command twice; every tick of the timer starts a
\* new cycle, which executes the command of its first enabled kind.
ExecutedAtMostOnce(cycle) == cycle.connectionExecs <= 1 /\ cycle.processExecs <= 1
C8_ExpiredEntriesDeleted ==
  ended.outcome # "none" =>
     NoneExpired(newConnectionTimestamps) /\ NoneExpired(newProcessTimestamps)

\* C9: a tick that fires while a cycle is suspended on its command starts
\* one more cycle and leaves the suspended ones in flight.
C9_NoOverlapGuard ==
  [][(nextTick' > nextTick /\ cycles # EmptyMap) =>
        /\ DOMAIN cycles \subseteq DOMAIN cycles'
        /\ Cardinality(DOMAIN cycles') = Cardinality(DOMAIN cycles) + 1]_vars

\* Two cycles are in flight, both suspended on the connections command with
\* their updates of the previous set and the timestamp map still to come.
C9_Witness ==
  /\ Cardinality(DOMAIN cycles) = 2
  /\ \A c \in DOMAIN cycles : cycles[c].pc = "connections"

(***************************************************************************)
(* Properties of parseProcesses (specification SpecParse).                 *)
(***************************************************************************)

\* The numbers of the well-formed lines of the listing.
WellFormedLines == {i \in 1..Len(toolPlan) : toolPlan[i]}

\* C10: parseProcesses returns at most 50 records: one for each of the
\* first 50 qualifying lines (all of them if fewer), in the order of the
\* lines.
C10_FirstFiftyInOrder ==
  parseDone =>
     /\ Len(parsed) <= ProcessCap
     /\ Len(parsed) = IF Cardinality(WellFormedLines) < ProcessCap
                      THEN Cardinality(WellFormedLines) ELSE ProcessCap
     /\ \A j \in 1..Len(parsed) : parsed[j].pid = Decimal(NthOf(WellFormedLines, j))

\* A listing with more than 50 qualifying lines after a first line cut
\* short has been parsed to 50 records.
C10_Witness ==
  /\ parseDone
  /\ Cardinality(WellFormedLines) > ProcessCap
  /\ ~toolPlan[1]
  /\ Len(parsed) = ProcessCap

(***************************************************************************)
(* Properties of the parsers on outputs put together line by line          *)
(* (specification SpecLines).                                              *)
(***************************************************************************)

ParsedConnectionsOn(os) == parseDone /\ toolKind = "connections" /\ toolOs = os

\* The textual forms of "any address, any port"
UnspecifiedRemotes ==
  { sAnyV4, sStarStar, <<"*">>,
    <<"0", ".", "0", ".", "0", ".", "0", ":", "*">>,
    <<"[", ":", ":", "]", ":", "0">> }

\* C11 as stated: on every platform, no record parseConnections returns has
\* an unspecified-endpoint sentinel as its remote field.
C11_NoUnspecifiedRemote ==
  (parseDone /\ toolKind = "connections") =>
     \A i \in 1..Len(parsed) : parsed[i].remote \notin UnspecifiedRemotes

\* The only line after the header of the output under test
OnlyLine == MenuOf(toolKind, toolOs)[toolPlan[1]]

\* C12 as stated: the lsof line COMMAND PID USER FD TYPE DEVICE SIZE/OFF
\* NODE NAME (ESTABLISHED) becomes a record with protocol TCP, family the
\* TYPE column, local and remote the two sides of the arrow in NAME and
\* process "COMMAND (PID)"; the example line gives family IPv6, local
\* [::1]:54321, remote example.com:443 and process "chrome (12345)".
C12_MacExample ==
  (ParsedConnectionsOn("mac") /\ Len(toolPlan) = 1 /\ OnlyLine = MacConnExample) =>
     /\ Len(parsed) = 1
     /\ parsed[1].protocol = sTCP
     /\ parsed[1].family = <<"I", "P", "v", "6">>
     /\ parsed[1].local = <<"[", ":", ":", "1", "]", ":", "5", "4", "3", "2", "1">>
     /\ parsed[1].remote = <<"e", "x", "a", "m", "p", "l", "e", ".", "c", "o", "m", ":", "4", "4", "3">>
     /\ parsed[1].process = <<"c", "h", "r", "o", "m", "e", " ", "(", "1", "2", "3", "4", "5", ")">>

(***************************************************************************)
(* Properties of the Windows process parser on one line put together       *)
(* field by field (specification SpecCsv).                                 *)
(***************************************************************************)

\* C13: a tasklist line of n quoted fields is split into exactly those n
\* fields, without their quotes: a comma inside quotes starts no field and
\* the last field is flushed; with two fields or more the line's record has
\* name = the first field and pid = the second (and mem = the fifth, commas
\* and all, when it is there and not empty).
C13_QuotedCsvFields ==
  (parseDone /\ Len(toolPlan) >= 1) =>
     /\ CsvFields(CsvLineOf(toolPlan)) = toolPlan
     /\ IF Len(toolPlan) >= 2
        THEN /\ Len(parsed) = 1
             /\ parsed[1].name = toolPlan[1]
             /\ parsed[1].pid = toolPlan[2]
             /\ (Len(toolPlan) >= 5 /\ toolPlan[5] # <<>>) => parsed[1].mem = toolPlan[5]
        ELSE parsed = <<>>

\* The example line has been parsed: name chrome.exe, pid 1234, and
\* "50,000 K" in one piece.
C13_Witness ==
  /\ parseDone
  /\ toolPlan = CsvExampleFields
  /\ Len(parsed) = 1
  /\ parsed[1].name = <<"c", "h", "r", "o", "m", "e", ".", "e", "x", "e">>
  /\ parsed[1].pid = <<"1", "2", "3", "4">>
  /\ parsed[1].mem = <<"5", "0", ",", "0", "0", "0", " ", "K">>

\* The plan's lines, as the tool printed them after the header.
PlanLines == [i \in 1..Len(toolPlan) |-> MenuOf(toolKind, toolOs)[toolPlan[i]]]

\* A netstat line whose first token is TCP or UDP and that has at least
\* minTokens tokens.
HasProtocolAndTokens(line, minTokens) ==
  LET parts == SplitWs(line)
  IN (parts[1] = sTCP \/ parts[1] = sUDP) /\ Len(parts) >= minTokens

\* The lines of the plan that have a protocol, a local and a remote token,
\* the remote being neither 0.0.0.0:0 nor *:*.
WindowsRecordLines ==
  SelectSeq(PlanLines, LAMBDA line : /\ HasProtocolAndTokens(line, 3)
                                     /\ SplitWs(line)[3] \notin {sAnyV4, sStarStar})

\* C14 as stated: the Windows connection parser emits a record for a line
\* only if the first token is TCP or UDP and the line has at least 4 tokens,
\* so there are no more records than such lines and an output holding only
\* shorter lines gives none.
C14_Original ==
  ParsedConnectionsOn("windows") =>
     Len(parsed) <= Len(SelectSeq(PlanLines, LAMBDA line : HasProtocolAndTokens(line, 4)))

\* C14 as the code has it: the records are those of the lines whose first
\* token is TCP or UDP, that have at least 3 tokens and whose third token is
\* neither 0.0.0.0:0 nor *:*, in line order; the state is the fourth token,
\* or N/A when the line has only three.
C14_Amended ==
  ParsedConnectionsOn("windows") =>
     /\ Len(parsed) = Len(WindowsRecordLines)
     /\ \A j \in 1..Len(parsed) :
          LET parts == SplitWs(WindowsRecordLines[j])
          IN /\ parsed[j].protocol = parts[1]
             /\ parsed[j].local = parts[2]
             /\ parsed[j].remote = parts[3]
             /\ parsed[j].state = IF Len(parts) >= 4 THEN parts[4] ELSE NA

\* A three-token TCP line has been parsed into a record with state N/A.
C14_Witness ==
  /\ ParsedConnectionsOn("windows")
  /\ \E i \in 1..Len(toolPlan) : PlanLines[i] = WinConnNoState
  /\ \E j \in 1..Len(parsed) : parsed[j].state = NA /\ parsed[j].remote = tB2

\* The output the tool prints when the lines after the header are these.
OutputOfLines(lines) == HeadOf(toolKind, toolOs) \o <<"\n">> \o Text(lines)

\* A sequence without its i-th element.
WithoutNth(seq, i) == SubSeq(seq, 1, i - 1) \o SubSeq(seq, i + 1, Len(seq))

\* The positions of the plan that hold a line without the expected shape.
MalformedPositions ==
  {i \in 1..Len(toolPlan) : toolPlan[i] \in MalformedOf(toolKind, toolOs)}

\* C15: in every parser variant, for each line after the header that does
\* not have the variant's shape, the parse completes, the line alone gives no
\* record, and the records of the whole output are those, in the same order,
\* of the output without that line.
C15_MalformedLineSkipped ==
  parseDone =>
     \A i \in MalformedPositions :
        /\ ParseOf(toolKind, OutputOfLines(<<PlanLines[i]>>), toolOs) = <<>>
        /\ parsed = ParseOf(toolKind, OutputOfLines(WithoutNth(PlanLines, i)), toolOs)

\* An lsof listing with a line lacking the ESTABLISHED marker ahead of a
\* well-formed line has been parsed, and the well-formed line's record is
\* there.
C15_Witness ==
  /\ ParsedConnectionsOn("mac")
  /\ \E i, j \in 1..Len(toolPlan) :
        /\ i < j
        /\ PlanLines[i] = MacConnClosing
        /\ PlanLines[j] = MacConnLine
  /\ \E r \in 1..Len(parsed) : parsed[r].remote = tB2

(***************************************************************************)
(* Properties of the tracking step and of the cycle as a whole             *)
(* (specification Spec).                                                   *)
(***************************************************************************)

\* The step is the return of a cycle's connections command with a result,
\* and the tracking of lines 305-312 with it.
ConnectionsTracked ==
  /\ running /\ running'
  /\ \E c \in DOMAIN cycles :
        /\ cycles[c].pc = "connections"
        /\ \/ c \in DOMAIN cycles' /\ cycles'[c].pc = "processes"
           \/ c \notin DOMAIN cycles' /\ ended'.id = c /\ ended'.outcome = "rendered"

\* The identity keys of the records that step parsed: the cycle keeps the
\* records for its render, or draws them in the same step.
ConnectionsPolled ==
  IF ended'.outcome = "rendered"
  THEN {frame'.connections[i].id : i \in 1..Len(frame'.connections)}
  ELSE UNION {Ids(cycles'[c].connections) :
                c \in {d \in DOMAIN cycles \cap DOMAIN cycles' :
                         cycles[d].pc = "connections" /\ cycles'[d].pc = "processes"}}

\* The step is the return of a cycle's processes command with a result,
\* and the tracking of lines 318-325 with it.
ProcessesTracked ==
  /\ running /\ running'
  /\ \E c \in DOMAIN cycles :
        /\ cycles[c].pc = "processes"
        /\ c \notin DOMAIN cycles' /\ ended'.id = c /\ ended'.outcome = "rendered"

ProcessesPolled == {frame'.processes[i].id : i \in 1..Len(frame'.processes)}

\* The keys whose entry the step created or set anew.
EntriesSet(before, after) ==
  {k \in DOMAIN after : k \notin DOMAIN before \/ after[k] # before[k]}

\* The step leaves the keys polled as the previous set, and creates entries
\* only for keys polled that the previous set did not hold, stamped with the
\* instant of the step.
TrackedStep(previousBefore, previousAfter, before, after, polled) ==
  /\ previousAfter = polled
  /\ EntriesSet(before, after) \subseteq polled \ previousBefore
  /\ \A k \in polled \ previousBefore : k \in DOMAIN after /\ after[k] = clock'

\* C16: after the tracking step of a kind whose command succeeded, the
\* kind's previous set is exactly the key set of the records just parsed
\* (replaced, not merged), and the step creates first-seen entries only for
\* keys of those records that were absent from the previous set as it stood
\* before the step.
C16_PreviousSetReplaced ==
  [][ /\ ConnectionsTracked =>
           TrackedStep(previousConnections, previousConnections',
                       newConnectionTimestamps, newConnectionTimestamps',
                       ConnectionsPolled)
      /\ ProcessesTracked =>
           TrackedStep(previousProcesses, previousProcesses',
                       newProcessTimestamps, newProcessTimestamps',
                       ProcessesPolled) ]_vars

\* A connections poll without the key of an earlier poll has left the
\* previous set empty, and the processes poll of the cycle that then
\* rendered has left its key as the previous set, stamped in that step.
C16_Witness ==
  /\ running
  /\ ended.outcome = "rendered"
  /\ seenConnections # {}
  /\ previousConnections = {}
  /\ previousProcesses # {}
  /\ \A k \in previousProcesses :
        k \in DOMAIN newProcessTimestamps /\ newProcessTimestamps[k] = clock

\* The step ends a cycle with its sweep and its draw.
RenderStep == running' /\ ended'.outcome = "rendered"

\* What a render step does to one kind: before and after are the kind's map
\* before the step and after its sweep, drawn the records of the kind in the
\* frame, and clock' the instant of the sweep and of the draw.
RenderedFromEntries(before, after, drawn) ==
  /\ \A i \in 1..Len(drawn) :
        /\ drawn[i].isNew = (/\ drawn[i].id \in DOMAIN after
                             /\ clock' - after[drawn[i].id] < HighlightWindow)
        /\ drawn[i].id \in DOMAIN before \ DOMAIN after => ~drawn[i].isNew
  /\ \A k \in DOMAIN before :
        clock' - before[k] = HighlightWindow =>
           /\ k \in DOMAIN after
           /\ \A i \in 1..Len(drawn) :
                 (drawn[i].id = k /\ after[k] = before[k]) => ~drawn[i].isNew

\* C17: in every rendered cycle a record is drawn isNew = true if and only
\* if its key has an entry when the frame is drawn and the draw is less than
\* 30,000 ms after the stored timestamp; no record is drawn new from an
\* entry the sweep of the same cycle deleted, and an entry aged exactly
\* 30,000 ms survives the sweep and its record is drawn isNew = false.
C17_NewIffEntryYoung ==
  [][ RenderStep =>
        /\ RenderedFromEntries(newConnectionTimestamps, newConnectionTimestamps',
                               frame'.connections)
        /\ RenderedFromEntries(newProcessTimestamps, newProcessTimestamps',
                               frame'.processes) ]_vars

\* A frame holds a process whose entry is exactly 30,000 ms old, kept by the
\* sweep and drawn not new, next to a connection without an entry, drawn
\* not new.
C17_Witness ==
  /\ Rendered
  /\ \E i \in 1..Len(frame.processes) :
        LET k == frame.processes[i].id
        IN /\ k \in DOMAIN newProcessTimestamps
           /\ clock - newProcessTimestamps[k] = HighlightWindow
           /\ ~frame.processes[i].isNew
  /\ \E i \in 1..Len(frame.connections) :
        /\ frame.connections[i].id \notin DOMAIN newConnectionTimestamps
        /\ frame.connections[i].id \in seenConnections
        /\ ~frame.connections[i].isNew

\* The cycles in flight that the step resumes, ends or discards.
CyclesMoved == {c \in DOMAIN cycles : c \notin DOMAIN cycles' \/ cycles'[c] # cycles[c]}

\* Comparison, insertions and replacement of one kind fall into one step:
\* the step sets entries only for keys that come into the previous set, each
\* key that comes into the set has its entry stamped with the instant of the
\* step, and all of it belongs to the one cycle whose command, the one named
\* by position, returned in the step.
TrackedInOneStep(previousBefore, previousAfter, before, after, position) ==
  (previousAfter # previousBefore \/ EntriesSet(before, after) # {}) =>
     /\ EntriesSet(before, after) \subseteq previousAfter \ previousBefore
     /\ \A k \in previousAfter \ previousBefore : k \in DOMAIN after /\ after[k] = clock'
     /\ \E c \in DOMAIN cycles : CyclesMoved = {c} /\ cycles[c].pc = position

\* An entry leaves a map only in the step that also draws the frame.
SweptInRenderStep(before, after) ==
  DOMAIN before \ DOMAIN after # {} => RenderStep /\ Cardinality(CyclesMoved) = 1

\* C19: a cycle is suspended only at its two command executions; for each
\* kind the comparison with the previous set, the insertions and the
\* replacement of the previous set happen in one step of one cycle, so no
\* other cycle acts between them, and the sweep and the draw of a cycle
\* happen in one step as well.
C19_NoSuspensionInTracking ==
  [][ running' =>
        /\ \A c \in DOMAIN cycles' : cycles'[c].pc \in {"connections", "processes"}
        /\ Cardinality(CyclesMoved) <= 1
        /\ TrackedInOneStep(previousConnections, previousConnections',
                            newConnectionTimestamps, newConnectionTimestamps',
                            "connections")
        /\ TrackedInOneStep(previousProcesses, previousProcesses',
                            newProcessTimestamps, newProcessTimestamps',
                            "processes")
        /\ SweptInRenderStep(newConnectionTimestamps, newConnectionTimestamps')
        /\ SweptInRenderStep(newProcessTimestamps, newProcessTimestamps') ]_vars

\* Two cycles overlap: one has tracked its connections, stamped and left as
\* the previous set, and waits for its processes command while the other
\* still waits for its connections command.
C19_Witness ==
  /\ running
  /\ \E c, d \in DOMAIN cycles :
        /\ cycles[c].pc = "processes"
        /\ cycles[d].pc = "connections"
        /\ cycles[c].connections # <<>>
        /\ previousConnections = Ids(cycles[c].connections)
        /\ \A k \in previousConnections :
              k \in DOMAIN newConnectionTimestamps /\ newConnectionTimestamps[k] = clock

\* No cycle in flight and no cycle just ended has executed the command
\* counted by execs.
NeverExecuted(execs) ==
  /\ \A c \in DOMAIN cycles : cycles[c][execs] = 0
  /\ ended[execs] = 0

\* C20: in a session with one kind enabled no cycle executes the command of
\* the other kind, and the other kind's previous set and timestamp map are
\* empty in every reachable state (nothing of that kind is drawn either).
C20_DisabledKindUntouched ==
  /\ ~flags.processes =>
        /\ NeverExecuted("processExecs")
        /\ previousProcesses = {}
        /\ newProcessTimestamps = EmptyMap
        /\ frame.processes = <<>>
  /\ ~flags.connections =>
        /\ NeverExecuted("connectionExecs")
        /\ previousConnections = {}
        /\ newConnectionTimestamps = EmptyMap
        /\ frame.connections = <<>>

\* A processes-only session has rendered a cycle that ran the processes
\* command once, and holds a previous set and an entry for processes.
C20_Witness ==
  /\ ~flags.connections
  /\ Rendered
  /\ ended.processExecs = 1
  /\ previousProcesses # {}
  /\ newProcessTimestamps # EmptyMap
  /\ started >= 2

(***************************************************************************)
(* Properties of overlapping cycles (specification SpecRace).              *)
(***************************************************************************)

\* The first-started cycle whose connections poll held key k.
FirstPollWith(k) ==
  CHOOSE c \in DOMAIN connectionPolls :
     /\ k \in connectionPolls[c]
     /\ \A d \in DOMAIN connectionPolls : k \in connectionPolls[d] => c <= d

\* Key k is in the poll of every cycle from that one onward, in the order
\* the cycles were started.
ContinuouslyPolled(k) ==
  /\ \E c \in DOMAIN connectionPolls : k \in connectionPolls[c]
  /\ \A d \in DOMAIN connectionPolls : d >= FirstPollWith(k) => k \in connectionPolls[d]

\* C18: whatever the order in which the commands of overlapping cycles
\* return, a key that is in the output of every poll from the first-started
\* poll holding it onward gets exactly one first-seen insertion.
C18_StampedOnce ==
  \A k \in DOMAIN connectionInsertions :
     ContinuouslyPolled(k) => connectionInsertions[k] = 1

=============================================================================
